---- MODULE Spec2Model ----
(***************************************************************************)
(* Model of src/ec2_controller.py: the monitor -> decide -> failover loop  *)
(* of main(), the route reconciliation of update_routes() and the          *)
(* provisioning of launch_instance_in_az(), run against a small model of   *)
(* the EC2 API (instances, subnets, availability zones, route tables).     *)
(***************************************************************************)
EXTENDS Integers, Sequences, FiniteSets

\* ------------------------------------------------------------------ bounds
\* Instance ids are 1..MaxInstances: id 1 is --instance-id, every
\* run_instances call creates the next id.
MaxInstances == 2
\* Route tables are 1..NumTables.
NumTables == 3

\* ------------------------------------------------------ the cloud's layout
InstanceIds == 1..MaxInstances
NoInstance == 0
RouteTableIds == 1..NumTables
\* The VPC and the availability zone of each subnet the account may hold.
SubnetVpc(s) == IF s \in {"s3", "s4"} THEN "v2" ELSE "v1"
SubnetAz(s) == IF s \in {"s1", "s3"} THEN "a" ELSE IF s = "s5" THEN "c" ELSE "b"
\* The regions the controller is run in: the subnets the account holds, the
\* order in which describe_availability_zones lists the zones, and the
\* subnets --instance-id may be in.
Region(subs, zones, homes) == [subnets |-> subs, azs |-> zones, homes |-> homes]
Regions == { Region({"s1"}, <<"a">>, {"s1"}),
             Region({"s1", "s2"}, <<"c", "a", "b">>, {"s1"}),
             Region({"s1", "s2", "s3", "s4"}, <<"a", "b">>, {"s2"}),
             Region({"s1", "s2", "s5"}, <<"c", "a", "b">>, {"s1"}) }
\* The VPC of each route table: the first two are in v1, the others in v2.
RtVpc(t) == IF t <= 2 THEN "v1" ELSE "v2"
InstanceStates == {"pending", "running", "stopped", "terminated"}

Range(s) == { s[i] : i \in 1..Len(s) }

VARIABLES
    pc,                   \* the line main() is at
    exit_code,            \* the process's exit status, -1 while it runs
    current_instance_id,  \* main: current_instance_id
    info,                 \* main: info
    needs_replacement,    \* main: needs_replacement
    reason,               \* main: reason
    ping_reachable,       \* main: ping_reachable
    target_az,            \* main: target_az
    new_instance_id,      \* main: new_instance_id
    target_subnet,        \* launch_instance_in_az: target_subnet
    subnet_id,            \* update_routes: subnet_id
    route_table_ids,      \* update_routes: the tables the loop has yet to do
    instances,            \* EC2: id -> [state, az, subnet_id]
    next_id,              \* EC2: the id the next run_instances returns
    subnets,              \* EC2: the subnets that exist
    azs,                  \* EC2: describe_availability_zones, in order
    routes,               \* EC2: table -> the targets of its routes to the CIDR
    log,                  \* the calls made and lines printed in this cycle
    routes0,              \* the route tables as update_routes last found them
    rt_failed,            \* the tables on which EC2 failed a route call
    calls                 \* how many times update_routes has returned to a test

vars == << pc, exit_code, current_instance_id, info, needs_replacement, reason,
           ping_reachable, target_az, new_instance_id, target_subnet, subnet_id,
           route_table_ids, instances, next_id, subnets, azs, routes, log,
           routes0, rt_failed, calls >>

ctl == << current_instance_id, info, needs_replacement, reason, ping_reachable,
          target_az, new_instance_id, target_subnet, subnet_id,
          route_table_ids >>
cloud == << instances, next_id, subnets, azs, routes >>
ghost == << routes0, rt_failed, calls >>

\* ------------------------------------------------------------- the EC2 API
\* What get_instance_info returns when the instance cannot be described.
None == [found |-> FALSE, az |-> "", state |-> "", subnet_id |-> ""]
NoInst == [state |-> "none", az |-> "", subnet_id |-> ""]

Describable(id) == id \in InstanceIds /\ instances[id].state \in InstanceStates

\* get_instance_info: the instance's record, or None on any exception (an
\* id EC2 does not know, or an API error on one it knows).
get_instance_info(id) ==
    {None} \cup
    (IF Describable(id)
       THEN {[found |-> TRUE, az |-> instances[id].az,
              state |-> instances[id].state,
              subnet_id |-> instances[id].subnet_id]}
       ELSE {})

\* get_other_azs: the zones of the region other than current_az, in order.
get_other_azs_unfiltered(current_az) == azs
get_other_azs(current_az) == SelectSeq(azs, LAMBDA z : z # current_az)

\* get_subnet_in_az: the subnets of the original subnet's VPC in target_az
\* (the code takes the first the API lists; an empty set is its None).
get_subnet_in_az(az, original_subnet_id) ==
    { s \in subnets : SubnetVpc(s) = SubnetVpc(original_subnet_id)
                      /\ SubnetAz(s) = az }

\* get_route_tables: the route tables of the subnet's VPC.
AllTables == [i \in 1..NumTables |-> i]
get_route_tables(subnet) ==
    SelectSeq(AllTables, LAMBDA t : RtVpc(t) = SubnetVpc(subnet))

\* ec2.delete_route on a table whose routes to the CIDR are r: the routes
\* left. It raises, and leaves r, when there is no such route or EC2 fails.
delete_route_keeps(r, ok) == r
delete_route(r, ok) == IF ok /\ r # {} THEN {} ELSE r

\* ec2.create_route with InstanceId=target: the routes left. It raises, and
\* leaves r, when the table has a route to the CIDR or EC2 fails.
create_route_else_branch(r, ok, target) ==
    IF log # << >> /\ log[Len(log)].op = "deleted" THEN r
    ELSE IF ok /\ r = {} THEN {target} ELSE r
create_route(r, ok, target) == IF ok /\ r = {} THEN {target} ELSE r

\* Line 145: the instance the new route points at.
create_route_target_old == current_instance_id
create_route_target == new_instance_id

\* Lines 129 and 148-149: the tables left to do after one table's
\* create_route, failed or not.
RemainingTablesBreak(failed) ==
    IF failed THEN << >> ELSE Tail(route_table_ids)
RemainingTables(failed) == Tail(route_table_ids)

\* ------------------------------------------------------------------ the log
Ev(op, arg) == [op |-> op, arg |-> arg]
Has(op) == \E i \in 1..Len(log) : log[i].op = op
Count(op, arg) == Cardinality({ i \in 1..Len(log) : log[i] = Ev(op, arg) })
CountOp(op) == Cardinality({ i \in 1..Len(log) : log[i].op = op })
\* The position of the first op in the log, 0 when there is none.
First(op) ==
    IF Has(op) THEN CHOOSE i \in 1..Len(log) :
                      /\ log[i].op = op
                      /\ \A j \in 1..(i - 1) : log[j].op # op
    ELSE 0

\* ------------------------------------------------------------ the decision
\* main, lines 249-268: needs_replacement and reason from info and the probe.
decide_ignoring_probe(i, reachable) ==
    IF ~i.found THEN [needs |-> TRUE, reason |-> "not found"]
    ELSE IF i.state # "running"
        THEN [needs |-> TRUE, reason |-> "state is " \o i.state]
    ELSE [needs |-> FALSE, reason |-> ""]
decide(i, reachable) ==
    IF ~i.found THEN [needs |-> TRUE, reason |-> "not found"]
    ELSE IF i.state # "running"
        THEN [needs |-> TRUE, reason |-> "state is " \o i.state]
    ELSE IF ~reachable THEN [needs |-> TRUE, reason |-> "unreachable"]
    ELSE [needs |-> FALSE, reason |-> ""]

\* main, lines 273-280: the status lines of a cycle: each of the three
\* branches on info prints one line, which names the instance.
StatusLinesFoundOnly(id, i) ==
    IF ~i.found THEN << >> ELSE << Ev("status", id) >>
StatusLines(id, i) == << Ev("status", id) >>

\* main, lines 349-351: an exception reaches the handler, which prints it;
\* sys.exit(1).
Raise(what) ==
    /\ pc' = "exited"
    /\ exit_code' = 1
    /\ log' = Append(log, Ev(what, 0))

\* main, lines 295-297 and 308-310: the message, time.sleep(5), continue.
SkipCycleRaises == Raise("error_skip")
SkipCycle ==
    /\ pc' = "backoff"
    /\ log' = Append(Append(log, Ev("describe_azs", 0)), Ev("skip", 0))
    /\ UNCHANGED exit_code

\* main, lines 338-339: the terminate call raised; the message, and on to
\* line 341.
TerminateFailedRaises ==
    /\ pc' = "exited"
    /\ exit_code' = 1
    /\ log' = Append(log, Ev("terminate", current_instance_id))
    /\ UNCHANGED current_instance_id
TerminateFailedKeepsId ==
    /\ log' = Append(Append(log, Ev("terminate", current_instance_id)),
                     Ev("could_not_terminate", current_instance_id))
    /\ pc' = "sleep"
    /\ UNCHANGED << exit_code, current_instance_id >>
TerminateFailed ==
    /\ log' = Append(Append(log, Ev("terminate", current_instance_id)),
                     Ev("could_not_terminate", current_instance_id))
    /\ current_instance_id' = new_instance_id
    /\ pc' = "sleep"
    /\ UNCHANGED exit_code

Init ==
    /\ pc = "cycle"
    /\ exit_code = -1
    /\ current_instance_id = 1
    /\ info = None
    /\ needs_replacement = FALSE
    /\ reason = ""
    /\ ping_reachable = FALSE
    /\ target_az = ""
    /\ new_instance_id = NoInstance
    /\ target_subnet = ""
    /\ subnet_id = ""
    /\ route_table_ids = << >>
    /\ \E r \in Regions : \E s \in r.homes :
         /\ subnets = r.subnets
         /\ azs = r.azs
         /\ instances = [i \in InstanceIds |->
                          IF i = 1 THEN [state |-> "running", az |-> SubnetAz(s),
                                         subnet_id |-> s]
                          ELSE NoInst]
    /\ next_id = 2
    /\ routes \in { [t \in RouteTableIds |-> {1}], [t \in RouteTableIds |-> {}] }
    /\ log = << >>
    /\ routes0 = routes
    /\ rt_failed = {}
    /\ calls = 0

\* ------------------------------------------------------- main: monitoring
\* Lines 238-251: a cycle starts, the instance is looked up, the decision
\* variables are reset. The other locals of the loop body and of the calls
\* it makes are dead here: each is assigned again before it is read, so they
\* are cleared with the cycle's log.
GetInfo ==
    /\ pc = "cycle"
    /\ \E r \in get_instance_info(current_instance_id) : info' = r
    /\ needs_replacement' = FALSE
    /\ reason' = ""
    /\ ping_reachable' = FALSE
    /\ target_az' = ""
    /\ new_instance_id' = NoInstance
    /\ target_subnet' = ""
    /\ subnet_id' = ""
    /\ log' = << >>
    /\ routes0' = routes
    /\ rt_failed' = {}
    /\ pc' = "check"
    /\ UNCHANGED << exit_code, current_instance_id, route_table_ids, cloud,
                    calls >>

\* Lines 253-262: not found, or not running: no probe; running: probe next.
CheckReplacement ==
    /\ pc = "check"
    /\ IF ~info.found \/ info.state # "running"
         THEN /\ needs_replacement' = decide(info, ping_reachable).needs
              /\ reason' = decide(info, ping_reachable).reason
              /\ pc' = "status"
         ELSE /\ UNCHANGED << needs_replacement, reason >>
              /\ pc' = "ping"
    /\ UNCHANGED << exit_code, current_instance_id, info, ping_reachable,
                    target_az, new_instance_id, target_subnet, subnet_id,
                    route_table_ids, cloud, log, ghost >>

\* Lines 263-269 and ping_instance: one probe; exit status 0 is reachable,
\* anything else (non-zero, timeout, launch error) is not.
PingTriesTwice ==
    /\ pc = "ping"
    /\ \E r \in BOOLEAN :
         /\ ping_reachable' = r
         /\ needs_replacement' = decide(info, r).needs
         /\ reason' = decide(info, r).reason
         /\ pc' = IF ~r /\ ~Has("probe") THEN "ping" ELSE "status"
    /\ log' = Append(log, Ev("probe", 0))
    /\ UNCHANGED << exit_code, current_instance_id, info, target_az,
                    new_instance_id, target_subnet, subnet_id, route_table_ids,
                    cloud, ghost >>
Ping ==
    /\ pc = "ping"
    /\ \E r \in BOOLEAN :
         /\ ping_reachable' = r
         /\ needs_replacement' = decide(info, r).needs
         /\ reason' = decide(info, r).reason
    /\ log' = Append(log, Ev("probe", 0))
    /\ pc' = "status"
    /\ UNCHANGED << exit_code, current_instance_id, info, target_az,
                    new_instance_id, target_subnet, subnet_id, route_table_ids,
                    cloud, ghost >>

\* Lines 273-287: the status line, then the branch on needs_replacement and,
\* inside it, on info.
PrintStatus ==
    /\ pc = "status"
    /\ log' = log \o StatusLines(current_instance_id, info)
    /\ pc' = IF ~needs_replacement THEN "sleep"
             ELSE IF ~info.found THEN "degraded" ELSE "other_azs"
    /\ UNCHANGED << exit_code, ctl, cloud, ghost >>

\* Lines 287-304: no info: take the first zone the region lists and any
\* subnet in it; none: skip the cycle.
DegradedBootstrap ==
    /\ pc = "degraded"
    /\ target_az' = azs[1]
    /\ LET found == { s \in subnets : SubnetAz(s) = azs[1] } IN
       IF found = {}
         THEN /\ SkipCycle
              /\ UNCHANGED info
         ELSE /\ \E s \in found :
                   info' = [found |-> TRUE, az |-> azs[1], state |-> "",
                            subnet_id |-> s]
              /\ log' = Append(log, Ev("describe_azs", 0))
              /\ pc' = "other_azs"
              /\ UNCHANGED exit_code
    /\ UNCHANGED << current_instance_id, needs_replacement, reason,
                    ping_reachable, new_instance_id, target_subnet, subnet_id,
                    route_table_ids, cloud, ghost >>

\* Lines 306-313: the first zone other than info's; none: skip the cycle.
OtherAzs ==
    /\ pc = "other_azs"
    /\ LET other_azs == get_other_azs(info.az) IN
       IF other_azs = << >>
         THEN /\ SkipCycle
              /\ UNCHANGED target_az
         ELSE /\ target_az' = other_azs[1]
              /\ log' = Append(log, Ev("describe_azs", 0))
              /\ pc' = "launch"
              /\ UNCHANGED exit_code
    /\ UNCHANGED << current_instance_id, info, needs_replacement, reason,
                    ping_reachable, new_instance_id, target_subnet, subnet_id,
                    route_table_ids, cloud, ghost >>

\* Lines 296-297 and 309-310: time.sleep(5); continue.
Backoff ==
    /\ pc = "backoff"
    /\ pc' = "cycle"
    /\ UNCHANGED << exit_code, ctl, cloud, log, ghost >>

\* Line 345: time.sleep(5), then the next iteration.
Sleep ==
    /\ pc = "sleep"
    /\ pc' = "cycle"
    /\ UNCHANGED << exit_code, ctl, cloud, log, ghost >>

\* ----------------------------------------- launch_instance_in_az and waits
\* Lines 166-204: the subnet of the target zone in the VPC of info's subnet
\* (none: raise), then run_instances, which returns a new id or raises.
Launch ==
    /\ pc = "launch"
    /\ next_id <= MaxInstances
    /\ LET found == get_subnet_in_az(target_az, info.subnet_id) IN
       IF found = {}
         THEN /\ Raise("no_subnet")
              /\ UNCHANGED << new_instance_id, target_subnet, instances,
                              next_id >>
         ELSE \E s \in found : \E ok \in BOOLEAN :
                /\ target_subnet' = s
                /\ IF ok
                     THEN /\ new_instance_id' = next_id
                          /\ instances' = [instances EXCEPT ![next_id] =
                                [state |-> "pending", az |-> SubnetAz(s),
                                 subnet_id |-> s]]
                          /\ next_id' = next_id + 1
                          /\ log' = Append(log, Ev("run", next_id))
                          /\ pc' = "wait_running"
                          /\ UNCHANGED exit_code
                     ELSE /\ Raise("error_run")
                          /\ UNCHANGED << new_instance_id, instances, next_id >>
    /\ UNCHANGED << current_instance_id, info, needs_replacement, reason,
                    ping_reachable, target_az, subnet_id, route_table_ids,
                    subnets, azs, routes, ghost >>

\* Lines 206-208: the instance_running waiter returns, or raises.
WaitRunningFailureSkips ==
    /\ pc = "wait_running"
    /\ \E ok \in BOOLEAN :
         IF ok
           THEN /\ instances' = [instances EXCEPT
                                   ![new_instance_id].state = "running"]
                /\ log' = Append(log, Ev("running", new_instance_id))
                /\ pc' = "disable_sdc"
           ELSE /\ log' = Append(log, Ev("skip", 0))
                /\ pc' = "backoff"
                /\ UNCHANGED instances
    /\ UNCHANGED << exit_code, ctl, next_id, subnets, azs, routes, ghost >>
WaitRunning ==
    /\ pc = "wait_running"
    /\ \E ok \in BOOLEAN :
         IF ok
           THEN /\ instances' = [instances EXCEPT
                                   ![new_instance_id].state = "running"]
                /\ log' = Append(log, Ev("running", new_instance_id))
                /\ pc' = "disable_sdc"
                /\ UNCHANGED exit_code
           ELSE /\ Raise("error_wait_running")
                /\ UNCHANGED instances
    /\ UNCHANGED << ctl, next_id, subnets, azs, routes, ghost >>

\* Lines 210-219: the source/destination check of the primary interface is
\* switched off, and launch_instance_in_az returns.
DisableSourceDestCheckLeftOut ==
    /\ pc = "disable_sdc"
    /\ pc' = "wait_status"
    /\ UNCHANGED << exit_code, ctl, cloud, log, ghost >>
DisableSourceDestCheck ==
    /\ pc = "disable_sdc"
    /\ \E ok \in BOOLEAN :
         IF ok
           THEN /\ log' = Append(log, Ev("sdc_off", new_instance_id))
                /\ pc' = "wait_status"
                /\ UNCHANGED exit_code
           ELSE Raise("error_sdc")
    /\ UNCHANGED << ctl, cloud, ghost >>

\* Lines 318-323: the instance_status_ok waiter returns, or raises.
WaitStatusOkFailureDropped ==
    /\ pc = "wait_status"
    /\ \E ok \in BOOLEAN :
         log' = IF ok THEN Append(log, Ev("status_ok", new_instance_id))
                ELSE Append(log, Ev("error_status_ok", 0))
    /\ pc' = "grace"
    /\ UNCHANGED << exit_code, ctl, cloud, ghost >>
WaitStatusOk ==
    /\ pc = "wait_status"
    /\ \E ok \in BOOLEAN :
         IF ok
           THEN /\ log' = Append(log, Ev("status_ok", new_instance_id))
                /\ pc' = "grace"
                /\ UNCHANGED exit_code
           ELSE Raise("error_status_ok")
    /\ UNCHANGED << ctl, cloud, ghost >>

\* Lines 325-327: time.sleep(30).
Grace ==
    /\ pc = "grace"
    /\ log' = Append(log, Ev("grace", 0))
    /\ pc' = "update_routes"
    /\ UNCHANGED << exit_code, ctl, cloud, ghost >>

\* ----------------------------------------------------------- update_routes
\* Lines 119-127: the subnet of the old instance, else of the new one (None
\* there is a TypeError), and the route tables of that subnet's VPC.
UpdateRoutes ==
    /\ pc = "update_routes"
    /\ \E old_info \in get_instance_info(current_instance_id) :
       \E new_info \in get_instance_info(new_instance_id) :
         LET subnet_info == IF old_info.found THEN old_info ELSE new_info IN
         IF ~subnet_info.found
           THEN /\ Raise("error_lookup")
                /\ UNCHANGED << subnet_id, route_table_ids, routes0 >>
           ELSE /\ subnet_id' = subnet_info.subnet_id
                /\ route_table_ids' = get_route_tables(subnet_id')
                /\ log' = Append(log, Ev("update_routes", 0))
                /\ routes0' = routes
                /\ pc' = IF route_table_ids' = << >> THEN "terminate"
                         ELSE "delete_route"
                /\ UNCHANGED exit_code
    /\ UNCHANGED << current_instance_id, info, needs_replacement, reason,
                    ping_reachable, target_az, new_instance_id, target_subnet,
                    cloud, rt_failed, calls >>

\* Lines 130-138: delete_route on the next table and the line that reports
\* it; any exception is passed over.
DeleteRoute ==
    /\ pc = "delete_route"
    /\ LET rt_id == Head(route_table_ids) IN
       \E ok \in BOOLEAN :
         LET left == delete_route(routes[rt_id], ok) IN
         /\ routes' = [routes EXCEPT ![rt_id] = left]
         /\ rt_failed' = IF ~ok /\ routes[rt_id] # {}
                           THEN rt_failed \cup {rt_id} ELSE rt_failed
         /\ log' = IF left # routes[rt_id]
                     THEN Append(Append(log, Ev("delete", rt_id)),
                                 Ev("deleted", rt_id))
                     ELSE Append(log, Ev("delete", rt_id))
    /\ pc' = "create_route"
    /\ UNCHANGED << exit_code, ctl, instances, next_id, subnets, azs,
                    routes0, calls >>

\* Lines 140-149: create_route on the same table and the line that reports
\* it; an exception is printed; then the next table, or the return.
CreateRoute ==
    /\ pc = "create_route"
    /\ LET rt_id == Head(route_table_ids) IN
       \E ok \in BOOLEAN :
         LET left == create_route(routes[rt_id], ok, create_route_target) IN
         /\ routes' = [routes EXCEPT ![rt_id] = left]
         /\ rt_failed' = IF ~ok /\ routes[rt_id] = {}
                           THEN rt_failed \cup {rt_id} ELSE rt_failed
         /\ log' = Append(log, Ev("create", rt_id))
         /\ route_table_ids' = RemainingTables(left = routes[rt_id])
    /\ pc' = IF route_table_ids' = << >> THEN "terminate" ELSE "delete_route"
    /\ UNCHANGED << exit_code, current_instance_id, info, needs_replacement,
                    reason, ping_reachable, target_az, new_instance_id,
                    target_subnet, subnet_id, instances, next_id, subnets, azs,
                    routes0, calls >>

\* ------------------------------------------------- main: the old instance
\* Lines 333-342: terminate_instances on the old id (it raises on an id EC2
\* does not know, or when EC2 fails), the exception printed and dropped;
\* then current_instance_id = new_instance_id.
Terminate ==
    /\ pc = "terminate"
    /\ \E ok \in BOOLEAN :
         IF ok /\ Describable(current_instance_id)
           THEN /\ instances' = [instances EXCEPT
                                   ![current_instance_id].state = "terminated"]
                /\ log' = Append(Append(log, Ev("terminate", current_instance_id)),
                                 Ev("terminated", current_instance_id))
                /\ current_instance_id' = new_instance_id
                /\ pc' = "sleep"
                /\ UNCHANGED exit_code
           ELSE /\ TerminateFailed
                /\ UNCHANGED instances
    /\ UNCHANGED << info, needs_replacement, reason, ping_reachable, target_az,
                    new_instance_id, target_subnet, subnet_id, route_table_ids,
                    next_id, subnets, azs, routes, ghost >>

\* ------------------------------------------------------- KeyboardInterrupt
\* Ctrl+C while main is at pc. Lines 137-138 (except: pass) and 338-339
\* (except: print) catch it like any exception, and the loop goes on; the
\* interrupted call has reached EC2, or not. Anywhere else it reaches
\* line 347 and main returns.
Interrupt ==
    /\ pc \notin {"exited", "returned"}
    /\ IF pc = "delete_route"
         THEN /\ LET rt_id == Head(route_table_ids) IN
                 \E sent \in BOOLEAN :
                   /\ routes' = [routes EXCEPT
                                   ![rt_id] = delete_route(routes[rt_id], sent)]
                   /\ rt_failed' = IF ~sent /\ routes[rt_id] # {}
                                     THEN rt_failed \cup {rt_id} ELSE rt_failed
              /\ log' = Append(log, Ev("delete", Head(route_table_ids)))
              /\ pc' = "create_route"
              /\ UNCHANGED << exit_code, ctl, instances >>
         ELSE IF pc = "terminate"
         THEN /\ \E sent \in BOOLEAN :
                   IF sent /\ Describable(current_instance_id)
                     THEN instances' = [instances EXCEPT
                            ![current_instance_id].state = "terminated"]
                     ELSE UNCHANGED instances
              /\ log' = Append(Append(log,
                            Ev("terminate", current_instance_id)),
                            Ev("could_not_terminate", current_instance_id))
              /\ current_instance_id' = new_instance_id
              /\ pc' = "sleep"
              /\ UNCHANGED << exit_code, info, needs_replacement, reason,
                              ping_reachable, target_az, new_instance_id,
                              target_subnet, subnet_id, route_table_ids,
                              routes, rt_failed >>
         ELSE /\ pc' = "exited"
              /\ exit_code' = 0
              /\ UNCHANGED << ctl, instances, routes, log, rt_failed >>
    /\ UNCHANGED << next_id, subnets, azs, routes0, calls >>

\* ---------------------------------------------------------- the instances
\* The monitored instance stops or is terminated. The controller reads an
\* instance's state only in the lookup that opens a cycle, so the change is
\* taken between two cycles; an instance EC2 has forgotten is a lookup that
\* returns None, which get_instance_info may do at any time.
EnvInstance ==
    /\ pc \in {"sleep", "backoff"}
    /\ \E s \in {"stopped", "terminated"} :
         /\ \/ instances[current_instance_id].state = "running"
            \/ instances[current_instance_id].state = "stopped" /\ s = "terminated"
         /\ instances' = [instances EXCEPT ![current_instance_id].state = s]
    /\ UNCHANGED << pc, exit_code, ctl, next_id, subnets, azs, routes, log,
                    ghost >>

Next ==
    \/ GetInfo
    \/ CheckReplacement
    \/ Ping
    \/ PrintStatus
    \/ DegradedBootstrap
    \/ OtherAzs
    \/ Backoff
    \/ Sleep
    \/ Launch
    \/ WaitRunning
    \/ DisableSourceDestCheck
    \/ WaitStatusOk
    \/ Grace
    \/ UpdateRoutes
    \/ DeleteRoute
    \/ CreateRoute
    \/ Terminate
    \/ Interrupt
    \/ EnvInstance

Spec == Init /\ [][Next]_vars

\* ------------------------------------------------ update_routes, run twice
\* update_routes called twice in a row with the same arguments (old id 1,
\* new id 2), from any route tables, for an old and a new instance in one
\* VPC or in two.
InitTwice ==
    /\ pc = "update_routes"
    /\ exit_code = -1
    /\ current_instance_id = 1
    /\ info = None
    /\ needs_replacement = TRUE
    /\ reason = "not found"
    /\ ping_reachable = FALSE
    /\ target_az = "b"
    /\ new_instance_id = 2
    /\ target_subnet = ""
    /\ subnet_id = ""
    /\ route_table_ids = << >>
    /\ subnets = {"s1", "s2", "s3", "s4"}
    /\ azs = <<"a", "b">>
    /\ \E p \in { <<"s1", "s2">>, <<"s2", "s4">> } :
         instances = [i \in InstanceIds |->
                        IF i = 1 THEN [state |-> "running", az |-> SubnetAz(p[1]),
                                       subnet_id |-> p[1]]
                        ELSE IF i = 2
                          THEN [state |-> "running", az |-> SubnetAz(p[2]),
                                subnet_id |-> p[2]]
                        ELSE NoInst]
    /\ next_id = 3
    /\ routes \in [RouteTableIds -> {{}, {1}, {2}}]
    /\ log = << >>
    /\ routes0 = routes
    /\ rt_failed = {}
    /\ calls = 0

\* update_routes has returned: the first time it is called again, the
\* second time the test is over.
CallAgain ==
    /\ pc = "terminate"
    /\ calls < 2
    /\ calls' = calls + 1
    /\ pc' = IF calls = 0 THEN "update_routes" ELSE "returned"
    /\ UNCHANGED << exit_code, ctl, cloud, log, routes0, rt_failed >>

NextTwice ==
    \/ UpdateRoutes
    \/ DeleteRoute
    \/ CreateRoute
    \/ CallAgain

SpecTwice == InitTwice /\ [][NextTwice]_vars

\* ----------------------------------------------------------------- claims
\* The route tables update_routes enumerated in this cycle.
Tables == Range(get_route_tables(subnet_id))
\* Table t held a route to the CIDR, not to the new instance, when
\* update_routes was called.
Stale(t) == routes0[t] # {} /\ routes0[t] # {new_instance_id}

\* C1: once the cycle's decision is made, it is NoAction exactly when the
\* instance was found, is running and the probe reported it reachable;
\* otherwise it is Replace, with reason not found, state is <state>, or
\* unreachable.
C1_Decision ==
    pc = "status" =>
      /\ ~needs_replacement <=>
           (info.found /\ info.state = "running" /\ ping_reachable)
      /\ needs_replacement =>
           reason = (IF ~info.found THEN "not found"
                     ELSE IF info.state # "running"
                       THEN "state is " \o info.state
                     ELSE "unreachable")
      /\ ~needs_replacement => reason = ""

\* An instance that was running is found terminated in a later cycle.
C1_Witness ==
    /\ pc = "status"
    /\ info.found
    /\ info.state = "terminated"
    /\ reason = "state is terminated"
    /\ ~Has("probe")

\* C2: when a replacement is about to be launched, the target zone is not
\* the zone of the current instance (its last-known zone when it can no
\* longer be looked up).
C2_TargetAzDiffers ==
    pc = "launch" => target_az # instances[current_instance_id].az

\* C3 as claimed: update_routes has returned and every table of the VPC held
\* a stale route: every table has exactly one route to the CIDR, to the new
\* instance.
C3_EveryTableConverged ==
    (pc = "terminate" /\ \A t \in Tables : Stale(t)) =>
      \A t \in Tables : routes[t] = {new_instance_id}

\* C3 as amended: under the same condition, every table on which no
\* delete_route or create_route call was failed by EC2 or cut by an
\* interrupt has exactly one route to the CIDR, to the new instance; a table
\* on which one was keeps its stale route or has none.
C3_ConvergedUnlessCallFailed ==
    (pc = "terminate" /\ \A t \in Tables : Stale(t)) =>
      \A t \in Tables :
        /\ t \notin rt_failed =>
             routes[t] = {new_instance_id} /\ Cardinality(routes[t]) = 1
        /\ t \in rt_failed => routes[t] \in {routes0[t], {}}

\* Two tables held a stale route and both point at the new instance.
C3_Witness ==
    /\ pc = "terminate"
    /\ Cardinality(Tables) >= 2
    /\ \A t \in Tables : Stale(t) /\ routes[t] = {new_instance_id}
    /\ rt_failed = {}

\* C4 as claimed: after the second of two calls in a row, every table has
\* the contents the first call left.
C4_TwiceSameAsOnce ==
    calls = 2 => routes = routes0

\* C4 as amended: after the second of two calls in a row, every table that
\* both calls processed, with no delete_route or create_route call on it
\* failed by EC2, has the contents the first call left.
C4_TwiceSameUnlessCallFailed ==
    calls = 2 =>
      \A t \in RouteTableIds :
        (t \notin rt_failed /\ Count("create", t) = 2) => routes[t] = routes0[t]

\* Both calls processed two tables, one empty and one with a stale route at
\* first, and no call failed.
C4_Witness ==
    /\ calls = 2
    /\ rt_failed = {}
    /\ Count("create", 1) = 2 /\ Count("create", 2) = 2
    /\ Count("deleted", 1) = 2 /\ Count("deleted", 2) = 1
    /\ routes[1] = {2} /\ routes[2] = {2}

\* C5: when update_routes returns, delete_route and create_route have each
\* been attempted once on every table of the VPC, whatever failed on the
\* tables before it, and no failure of a route call ends the process.
C5_EveryTableAttempted ==
    /\ pc = "terminate" =>
         \A t \in Tables : Count("delete", t) = 1 /\ Count("create", t) = 1
    /\ exit_code = 1 => ~Has("delete") /\ ~Has("create")

\* A route call failed on one table, and a later table, which had no route
\* to delete, got its route to the new instance.
C5_Witness ==
    /\ pc = "terminate"
    /\ \E t1, t2 \in Tables :
         /\ t1 < t2
         /\ t1 \in rt_failed
         /\ routes0[t2] = {}
         /\ routes[t2] = {new_instance_id}

\* C6: a cycle skipped for want of another zone, or of any subnet in the
\* zone of the degraded path, has made no run_instances, route or terminate
\* call and leaves the process running on the same instance id; the
\* controller takes the skip whenever that is the case, and after the
\* backoff it starts a new cycle.
C6_SkipCycle ==
    /\ [](pc = "backoff" =>
            /\ ~Has("run") /\ ~Has("delete") /\ ~Has("create")
            /\ ~Has("terminate")
            /\ exit_code = -1
            /\ Count("status", current_instance_id) = 1)
    /\ [][(pc = "other_azs" /\ get_other_azs(info.az) = << >> /\ pc' # pc)
            => (pc' = "backoff" \/ exit_code' = 0)]_vars
    /\ [][(pc = "degraded" /\ pc' # pc
           /\ { s \in subnets : SubnetAz(s) = azs[1] } = {})
            => (pc' = "backoff" \/ exit_code' = 0)]_vars
    /\ [][(pc = "backoff" /\ pc' # pc)
            => \/ /\ pc' = "cycle"
                  /\ UNCHANGED << current_instance_id, cloud >>
               \/ exit_code' = 0]_vars

\* The instance was not found and the region has no other zone.
C6_Witness ==
    /\ pc = "backoff"
    /\ reason = "not found"
    /\ info.found
    /\ get_other_azs(info.az) = << >>

\* C7: launch_instance_in_az finding no subnet in the target zone does not
\* end the process.
C7_NoSubnetIsNonFatal ==
    Has("no_subnet") => (pc # "exited" /\ exit_code = -1)

\* C8: an interrupt ends the process with exit code 0 wherever it is
\* delivered, and an exception that reaches main's handler ends it with
\* exit code 1.
C8_InterruptExitsZero ==
    /\ [][Interrupt => (pc' = "exited" /\ exit_code' = 0)]_vars
    /\ []((\E i \in 1..Len(log) :
             log[i].op \in {"no_subnet", "error_run", "error_wait_running",
                            "error_sdc", "error_status_ok", "error_lookup"})
            => (pc = "exited" /\ exit_code = 1))

\* C9: a cycle prints one status line, never more, and prints it before any
\* zone lookup, skip, launch, route call or terminate call of the cycle.
C9_OneStatusLine ==
    /\ CountOp("status") <= 1
    /\ pc \notin {"cycle", "check", "ping", "status", "exited"} =>
         CountOp("status") = 1
    /\ pc = "cycle" /\ log # << >> => CountOp("status") = 1
    /\ \A i \in 1..Len(log) :
         log[i].op \notin {"probe", "status"} =>
           First("status") \in 1..(i - 1)

\* A failover ran to its end under one status line.
C9_Witness ==
    /\ pc = "sleep"
    /\ Has("terminated")
    /\ First("status") < First("describe_azs")
    /\ CountOp("status") = 1

\* C10: terminate_instances is called at most once in a cycle, and when it
\* fails the process does not end with an error, no second launch is made,
\* and the controller monitors the new instance.
C10_TerminateFailureIgnored ==
    /\ CountOp("terminate") <= 1
    /\ CountOp("run") <= 1
    /\ (Has("terminate") /\ ~Has("terminated")) =>
         /\ exit_code # 1
         /\ pc \in {"sleep", "cycle", "exited"}
         /\ Count("run", current_instance_id) = 1

\* The terminate call failed and the controller sleeps before monitoring
\* the new instance.
C10_Witness ==
    /\ pc = "sleep"
    /\ Has("could_not_terminate")
    /\ current_instance_id = new_instance_id
    /\ current_instance_id # 1

\* C11 as claimed: when route reconciliation has finished and termination
\* has not started, every table of the VPC has its route to the CIDR
\* pointing at the new instance and no terminate call has been made; as long
\* as reconciliation has not started, the cycle has changed no route table.
C11_ConvergedBeforeTerminate ==
    /\ pc = "terminate" =>
         /\ \A t \in Tables : routes[t] = {new_instance_id}
         /\ ~Has("terminate")
    /\ ~Has("update_routes") =>
         (routes = routes0 /\ ~Has("delete") /\ ~Has("create"))

\* C11 as amended: when route reconciliation has finished and termination
\* has not started, every table of the VPC on which no delete_route or
\* create_route call was failed by EC2 or cut by an interrupt has its route
\* pointing at the new instance, the others keep what they had or have no
\* route, and no terminate call has been made; as long as reconciliation has
\* not started, the cycle has changed no route table.
C11_ConvergedUnlessCallFailed ==
    /\ pc = "terminate" =>
         /\ \A t \in Tables :
              IF t \in rt_failed THEN routes[t] \in {routes0[t], {}}
              ELSE routes[t] = {new_instance_id}
         /\ ~Has("terminate")
    /\ ~Has("update_routes") =>
         (routes = routes0 /\ ~Has("delete") /\ ~Has("create"))

\* Reconciliation has finished with every table on the new instance, and
\* the old instance, found unreachable, is still running.
C11_Witness ==
    /\ pc = "terminate"
    /\ reason = "unreachable"
    /\ instances[current_instance_id].state = "running"
    /\ Tables # {}
    /\ \A t \in Tables : routes0[t] # {} /\ routes[t] = {new_instance_id}
    /\ ~Has("terminate")

\* C12 as claimed: the provisioning steps of a replacement occur in the
\* order run_instances, running, status checks passed, source/destination
\* check off.
C12_StatusOkBeforeSourceDestCheck ==
    /\ Has("running") => First("run") \in 1..(First("running") - 1)
    /\ Has("status_ok") => First("running") \in 1..(First("status_ok") - 1)
    /\ Has("sdc_off") => First("status_ok") \in 1..(First("sdc_off") - 1)

\* C12 as amended: the provisioning steps of a replacement occur on the
\* instance run_instances returned and in the order run_instances, running,
\* source/destination check off, status checks passed: each step is entered
\* in the log right after the one before it, and the status checks are
\* waited for only after the check is off.
C12_SourceDestCheckBeforeStatusOk ==
    /\ \A i \in 1..Len(log) :
         /\ log[i].op = "run" => log[i].arg = new_instance_id
         /\ log[i].op = "running" =>
              (i > 1 /\ log[i - 1] = Ev("run", new_instance_id))
         /\ log[i].op = "sdc_off" =>
              (i > 1 /\ log[i - 1] = Ev("running", new_instance_id))
         /\ log[i].op = "status_ok" =>
              (i > 1 /\ log[i - 1] = Ev("sdc_off", new_instance_id))
    /\ pc = "wait_status" => log[Len(log)] = Ev("sdc_off", new_instance_id)

\* The replacement has passed its status checks, after the three steps
\* before them.
C12_Witness ==
    /\ pc = "grace"
    /\ Len(log) >= 4
    /\ log[Len(log) - 3] = Ev("run", new_instance_id)
    /\ log[Len(log) - 2] = Ev("running", new_instance_id)
    /\ log[Len(log) - 1] = Ev("sdc_off", new_instance_id)
    /\ log[Len(log)] = Ev("status_ok", new_instance_id)

\* The log entries of the failures of the steps of a failover that come
\* before route reconciliation.
ProvisioningErrors == {"no_subnet", "error_run", "error_wait_running",
                       "error_sdc", "error_status_ok"}

\* C13: a cycle calls delete_route or create_route only inside
\* update_routes, and enters update_routes only after the replacement was
\* reported running, had its source/destination check switched off, passed
\* its status checks and the grace period was slept, in that order; a cycle
\* in which one of these steps failed has made no route call and left every
\* route table as it found it.
C13_RoutesOnlyAfterGrace ==
    /\ \A i \in 1..Len(log) :
         /\ log[i].op = "update_routes" =>
              /\ i > 4
              /\ log[i - 1].op = "grace"
              /\ log[i - 2] = Ev("status_ok", new_instance_id)
              /\ log[i - 3] = Ev("sdc_off", new_instance_id)
              /\ log[i - 4] = Ev("running", new_instance_id)
         /\ log[i].op = "delete" =>
              (i > 1 /\ log[i - 1].op \in {"update_routes", "create"})
         /\ log[i].op = "create" =>
              (i > 1 /\ log[i - 1].op \in {"delete", "deleted"})
    /\ (log # << >> /\ log[Len(log)].op \in ProvisioningErrors) =>
         /\ routes = routes0
         /\ \A i \in 1..Len(log) :
              log[i].op \notin {"update_routes", "delete", "create"}
    /\ pc \in {"launch", "wait_running", "disable_sdc", "wait_status", "grace"}
         => routes = routes0

\* A stale route has been deleted, after the grace period that followed the
\* three provisioning steps.
C13_Witness ==
    /\ pc = "create_route"
    /\ Has("deleted")
    /\ routes # routes0
    /\ log[First("update_routes") - 1].op = "grace"
    /\ log[First("update_routes") - 2].op = "status_ok"

\* C14: a cycle launches the probe at most once; once its decision is made,
\* it has launched it once when the instance was found running and not at
\* all when it was not found or not running; and a probe that failed on a
\* running instance gives Replace with reason unreachable in that cycle.
C14_OneProbePerCycle ==
    /\ CountOp("probe") <= 1
    /\ pc = "status" =>
         CountOp("probe") = (IF info.found /\ info.state = "running"
                               THEN 1 ELSE 0)
    /\ (pc = "status" /\ Has("probe") /\ ~ping_reachable) =>
         (needs_replacement /\ reason = "unreachable")
    /\ pc \notin {"cycle", "check", "ping", "status", "exited"} =>
         /\ reason = "unreachable" => (CountOp("probe") = 1 /\ ~ping_reachable)
         /\ reason \notin {"unreachable", ""} => CountOp("probe") = 0
         /\ reason = "" => (CountOp("probe") = 1 /\ ping_reachable)
         /\ pc \notin {"sleep", "backoff"} => needs_replacement

\* One probe of a running instance failed, and the cycle is on its way to a
\* replacement.
C14_Witness ==
    /\ pc = "other_azs"
    /\ info.found /\ info.state = "running"
    /\ reason = "unreachable"
    /\ log = << Ev("probe", 0), Ev("status", current_instance_id) >>

\* C15: a failed instance lookup never ends the process: in the monitoring
\* step it gives the decision Replace with reason not found, and in
\* update_routes, whichever of the lookups of the old and of the new
\* instance fail, the process goes on.
C15_LookupNeverFatal ==
    /\ (pc = "status" /\ ~info.found) =>
         (needs_replacement /\ reason = "not found" /\ exit_code = -1)
    /\ Has("error_lookup") => (pc # "exited" /\ exit_code = -1)

\* C16: current_instance_id changes only in the step that ends a failover,
\* after the cycle's run_instances, update_routes and terminate call, and
\* its new value is the id run_instances returned in that cycle; a cycle
\* that has not reached that step, a NoAction or a skipped cycle among
\* them, monitors the id its status line named, and a cycle that has
\* monitors the replacement.
C16_IdChangesOnlyAtFailoverEnd ==
    /\ [][current_instance_id' # current_instance_id =>
            /\ pc = "terminate" /\ pc' = "sleep"
            /\ Count("run", new_instance_id) = 1
            /\ First("run") < First("update_routes")
            /\ \E i \in 1..Len(log') : log'[i] = Ev("terminate", current_instance_id)
            /\ current_instance_id' = new_instance_id]_vars
    /\ []((Has("status") /\ ~Has("terminate")) =>
            Count("status", current_instance_id) = 1)
    /\ [](Has("terminate") =>
            /\ pc \in {"sleep", "cycle", "exited"}
            /\ current_instance_id = new_instance_id
            /\ Count("run", current_instance_id) = 1
            /\ Count("status", current_instance_id) = 0)

\* A failover has ended: the old instance is terminated and the controller
\* is about to monitor the replacement.
C16_Witness ==
    /\ pc = "sleep"
    /\ Has("terminated")
    /\ Count("status", 1) = 1
    /\ current_instance_id = 2
    /\ instances[1].state = "terminated"

C18_LaunchedIsAdopted ==
    /\ CountOp("run") <= 1
    /\ Has("run") =>
         /\ Count("run", new_instance_id) = 1
         /\ instances[new_instance_id].state # "none"
         /\ pc # "backoff" /\ ~Has("skip")
         /\ \/ pc \in {"wait_running", "disable_sdc", "wait_status", "grace",
                       "update_routes", "delete_route", "create_route",
                       "terminate"}
            \/ pc = "exited"
            \/ /\ pc \in {"sleep", "cycle"}
               /\ exit_code = -1
               /\ current_instance_id = new_instance_id

\* A failover in which a route call and the terminate call failed has
\* still made the launched instance the current one.
C18_Witness ==
    /\ pc = "sleep"
    /\ Has("run")
    /\ rt_failed # {}
    /\ Has("could_not_terminate")
    /\ current_instance_id = new_instance_id
    /\ instances[current_instance_id].state = "running"

\* C19: every route table on which a failover calls delete_route or
\* create_route is a table of the VPC of the subnet the replacement was
\* launched in, also when the cycle's lookup of the old instance failed and
\* the lookup in update_routes did not.
C19_TablesInReplacementVpc ==
    \A i \in 1..Len(log) :
      log[i].op \in {"delete", "create"} =>
        RtVpc(log[i].arg) = SubnetVpc(instances[new_instance_id].subnet_id)

====
